---- MODULE Spec2Model ----
(***************************************************************************)
(* Model of primitives/src/transactions/mod.rs: the generic Transaction    *)
(* container (encode, length, hash, recover_from) and rlp_join_lists, the  *)
(* function that splices two RLP-encoded lists into one.                   *)
(*                                                                         *)
(* Bytes are naturals in 0..255, buffers are sequences of bytes.  A        *)
(* function that can panic returns a record [status, out]: status is "ok"  *)
(* or "panic", out is the output buffer at return or at the point of abort.*)
(***************************************************************************)
EXTENDS Integers, Sequences, FiniteSets, TLC

\* ------------------------------------------------------------------ bounds

\* largest nonce of the modelled essences
MaxNonce == 128
\* longest call data of the modelled essences (crosses the 55/56 byte header switch)
MaxDataLen == 56
\* longest payload of the raw lists handed directly to rlp_join_lists
MaxPayload == 56

\* ------------------------------------------------------------------ RLP (alloy_rlp)

\* minimal big-endian bytes of n (no leading zero byte; empty for 0)
RECURSIVE BeBytes(_)
BeBytes(n) == IF n = 0 THEN << >> ELSE Append(BeBytes(n \div 256), n % 256)

\* the value of big-endian bytes
RECURSIVE BeValue(_)
BeValue(bs) ==
    IF bs = << >> THEN 0
    ELSE BeValue(SubSeq(bs, 1, Len(bs) - 1)) * 256 + bs[Len(bs)]

\* alloy_rlp::length_of_length: the size of the header of a payload
length_of_length(payload_length) ==
    IF payload_length < 56 THEN 1 ELSE 1 + Len(BeBytes(payload_length))

\* alloy_rlp::Header::encode: the header bytes written for (list, payload_length)
Header_encode(list, payload_length) ==
    LET code == IF list THEN 192 ELSE 128
    IN  IF payload_length < 56
        THEN << code + payload_length >>
        ELSE << code + 55 + Len(BeBytes(payload_length)) >> \o BeBytes(payload_length)

\* alloy_rlp::Header::length
Header_length(header) == length_of_length(header.payload_length)

DecodeErr == [ok |-> FALSE, list |-> FALSE, payload_length |-> 0]

\* alloy_rlp::Header::decode on the start of buf: Ok(Header) or Err
Header_decode(buf) ==
    IF Len(buf) = 0 THEN DecodeErr
    ELSE LET b == buf[1]
             rest == Len(buf) - 1
         IN  IF b < 128 THEN
                 \* a single byte is its own encoding; nothing is consumed
                 [ok |-> TRUE, list |-> FALSE, payload_length |-> 1]
             ELSE IF b <= 183 THEN
                 LET pl == b - 128
                 IN  IF pl = 1 /\ (rest < 1 \/ buf[2] < 128) THEN DecodeErr
                     ELSE IF rest < pl THEN DecodeErr
                     ELSE [ok |-> TRUE, list |-> FALSE, payload_length |-> pl]
             ELSE IF b <= 191 \/ b >= 248 THEN
                 LET list == b >= 248
                     ll == IF list THEN b - 247 ELSE b - 183
                 IN  IF rest < ll THEN DecodeErr
                     ELSE IF buf[2] = 0 THEN DecodeErr
                     ELSE LET pl == BeValue(SubSeq(buf, 2, 1 + ll))
                          IN  IF pl < 56 THEN DecodeErr
                              ELSE IF rest - ll < pl THEN DecodeErr
                              ELSE [ok |-> TRUE, list |-> list, payload_length |-> pl]
             ELSE
                 LET pl == b - 192
                 IN  IF rest < pl THEN DecodeErr
                     ELSE [ok |-> TRUE, list |-> TRUE, payload_length |-> pl]

\* RLP encoding of a byte string
EncodeBytes(bs) ==
    IF Len(bs) = 1 /\ bs[1] < 128 THEN bs
    ELSE Header_encode(FALSE, Len(bs)) \o bs

\* RLP encoding of an unsigned integer
EncodeUint(n) == EncodeBytes(BeBytes(n))

\* n bytes, all equal to b
Fill(n, b) == [i \in 1..n |-> b]

\* ------------------------------------------------------------------ collaborators

\* the reserved type tag of the signature-less deposited transaction
OPTIMISM_DEPOSITED_TX_TYPE == 126

\* TxEssence::tx_type
Essence_tx_type(essence) == essence.tx_type

\* the fields of the essence's list, each RLP-encoded
Essence_payload(essence) == EncodeUint(essence.nonce) \o EncodeBytes(essence.data)

\* TxEssence::payload_length
Essence_payload_length(essence) == Len(Essence_payload(essence))

\* Encodable::encode of the essence: its fields as one RLP list
Essence_encode(essence) ==
    Header_encode(TRUE, Essence_payload_length(essence)) \o Essence_payload(essence)

\* the fields of the signature's list; r and s are the big-endian bytes of a
\* 256-bit integer without leading zeros
Signature_payload(signature) ==
    EncodeUint(signature.v) \o EncodeBytes(signature.r) \o EncodeBytes(signature.s)

\* TxSignature::payload_length
Signature_payload_length(signature) == Len(Signature_payload(signature))

\* Encodable::encode of the signature: v, r, s as one RLP list
Signature_encode(signature) ==
    Header_encode(TRUE, Signature_payload_length(signature)) \o Signature_payload(signature)

\* TxEssence::recover_from: Ok(address) or Err; the recovery fails on a
\* recovery indicator that is no valid one
Essence_recover_from(essence, signature) ==
    IF signature.v = 0
    THEN [ok |-> FALSE, val |-> 0]
    ELSE [ok |-> TRUE,
          val |-> 1 + essence.nonce + signature.v + Len(signature.r) + 2 * Len(signature.s)]

\* the hashing primitive, collision-free on its input
keccak(bytes) == << "keccak", bytes >>

\* ------------------------------------------------------------------ rlp_join_lists

\* rlp_join_lists with the second put_slice writing all of b_buf
rlp_join_lists_keeps_b_header(a_buf, b_buf, out) ==
    LET a_header == Header_decode(a_buf)
        b_header == Header_decode(b_buf)
    IN  IF ~a_header.ok \/ ~a_header.list \/ ~b_header.ok \/ ~b_header.list
        THEN [status |-> "panic", out |-> out]
        ELSE [status |-> "ok",
              out |-> out
                      \o Header_encode(TRUE, (Len(a_buf) - Header_length(a_header))
                                             + (Len(b_buf) - Header_length(b_header)))
                      \o SubSeq(a_buf, Header_length(a_header) + 1, Len(a_buf))
                      \o b_buf]

\* rlp_join_lists without the check that b is a list
rlp_join_lists_unchecked_b(a_buf, b_buf, out) ==
    LET a_header == Header_decode(a_buf)
        b_header == Header_decode(b_buf)
    IN  IF ~a_header.ok \/ ~a_header.list \/ ~b_header.ok
        THEN [status |-> "panic", out |-> out]
        ELSE [status |-> "ok",
              out |-> out
                      \o Header_encode(TRUE, (Len(a_buf) - Header_length(a_header))
                                             + (Len(b_buf) - Header_length(b_header)))
                      \o SubSeq(a_buf, Header_length(a_header) + 1, Len(a_buf))
                      \o SubSeq(b_buf, Header_length(b_header) + 1, Len(b_buf))]

\* rlp_join_lists taking the payload lengths from the decoded headers
rlp_join_lists_declared(a_buf, b_buf, out) ==
    LET a_header == Header_decode(a_buf)
        b_header == Header_decode(b_buf)
    IN  IF ~a_header.ok \/ ~a_header.list \/ ~b_header.ok \/ ~b_header.list
        THEN [status |-> "panic", out |-> out]
        ELSE [status |-> "ok",
              out |-> out
                      \o Header_encode(TRUE, a_header.payload_length + b_header.payload_length)
                      \o SubSeq(a_buf, Header_length(a_header) + 1, Len(a_buf))
                      \o SubSeq(b_buf, Header_length(b_header) + 1, Len(b_buf))]

\* rlp_join_lists(a, b, out), with a_buf = alloy_rlp::encode(a) and
\* b_buf = alloy_rlp::encode(b)
rlp_join_lists(a_buf, b_buf, out) ==
    LET a_header == Header_decode(a_buf)
    IN  IF ~a_header.ok THEN [status |-> "panic", out |-> out]
        ELSE IF ~a_header.list THEN [status |-> "panic", out |-> out]
        ELSE
        LET a_head_length == Header_length(a_header)
            a_payload_length == Len(a_buf) - a_head_length
            b_header == Header_decode(b_buf)
        IN  IF ~b_header.ok THEN [status |-> "panic", out |-> out]
            ELSE IF ~b_header.list THEN [status |-> "panic", out |-> out]
            ELSE
            LET b_head_length == Header_length(b_header)
                b_payload_length == Len(b_buf) - b_head_length
            IN  [status |-> "ok",
                 out |-> out
                         \o Header_encode(TRUE, a_payload_length + b_payload_length)
                         \o SubSeq(a_buf, a_head_length + 1, Len(a_buf))
                         \o SubSeq(b_buf, b_head_length + 1, Len(b_buf))]

\* ------------------------------------------------------------------ Transaction

\* encode without the early return of the deposited transaction
Transaction_encode_no_early_return(tx, out) ==
    LET tx_type == Essence_tx_type(tx.essence)
        out1 == IF tx_type # 0 THEN Append(out, tx_type) ELSE out
    IN  rlp_join_lists(Essence_encode(tx.essence), Signature_encode(tx.signature), out1)

\* encode writing the type byte of legacy transactions too
Transaction_encode_always_prefix(tx, out) ==
    LET tx_type == Essence_tx_type(tx.essence)
        out1 == Append(out, tx_type)
    IN  IF tx_type = OPTIMISM_DEPOSITED_TX_TYPE
        THEN [status |-> "ok", out |-> out1 \o Essence_encode(tx.essence)]
        ELSE rlp_join_lists(Essence_encode(tx.essence), Signature_encode(tx.signature), out1)

\* <Transaction as Encodable>::encode
Transaction_encode(tx, out) ==
    LET tx_type == Essence_tx_type(tx.essence)
        out1 == IF tx_type # 0 THEN Append(out, tx_type) ELSE out
    IN  IF tx_type = OPTIMISM_DEPOSITED_TX_TYPE
        THEN [status |-> "ok", out |-> out1 \o Essence_encode(tx.essence)]
        ELSE rlp_join_lists(Essence_encode(tx.essence), Signature_encode(tx.signature), out1)

\* length counting the signature of the deposited transaction too
Transaction_length_always_signed(tx) ==
    LET tx_type == Essence_tx_type(tx.essence)
        payload_length ==
            Essence_payload_length(tx.essence) + Signature_payload_length(tx.signature)
        length == payload_length + length_of_length(payload_length)
    IN  IF tx_type # 0 THEN length + 1 ELSE length

\* <Transaction as Encodable>::length
Transaction_length(tx) ==
    LET tx_type == Essence_tx_type(tx.essence)
        payload_length ==
            IF tx_type = OPTIMISM_DEPOSITED_TX_TYPE
            THEN Essence_payload_length(tx.essence)
            ELSE Essence_payload_length(tx.essence) + Signature_payload_length(tx.signature)
        length == payload_length + length_of_length(payload_length)
    IN  IF tx_type # 0 THEN length + 1 ELSE length

\* hash of the essence's encoding alone
Transaction_hash_essence_only(tx) == keccak(Essence_encode(tx.essence))

\* Transaction::hash
Transaction_hash(tx) == keccak(Transaction_encode(tx, << >>).out)

\* recover_from unwrapping the essence's result
Transaction_recover_from_unwrap(tx) ==
    LET r == Essence_recover_from(tx.essence, tx.signature)
    IN  [status |-> IF r.ok THEN "ok" ELSE "panic", ok |-> r.ok, val |-> r.val]

\* Transaction::recover_from
Transaction_recover_from(tx) ==
    LET r == Essence_recover_from(tx.essence, tx.signature)
    IN  [status |-> "ok", ok |-> r.ok, val |-> r.val]

\* ------------------------------------------------------------------ inputs

TxTypes == {0, 1, 2, OPTIMISM_DEPOSITED_TX_TYPE}
Nonces == {0, MaxNonce}
Datas ==
    {<< >>, <<127>>, <<128>>} \cup {Fill(n, 128) : n \in (MaxDataLen - 4)..MaxDataLen}
Essences == [tx_type : TxTypes, nonce : Nonces, data : Datas]

RValues == {<<1>>, Fill(32, 202)}
SValues == {<<1>>, Fill(32, 31)}
Signatures == [v : {0, 27, 38}, r : RValues, s : SValues]

Transactions == [essence : Essences, signature : Signatures]

\* what a caller's buffer holds before the call
Buffers == {<< >>, <<170>>}

\* a payload of n one-byte items
Items(n) == [i \in 1..n |-> i % 128]
\* the standalone RLP list of a payload
RlpList(payload) == Header_encode(TRUE, Len(payload)) \o payload

PayloadLens == {0, 1, MaxPayload \div 2, MaxPayload - 1, MaxPayload}
ValidLists == {RlpList(Items(n)) : n \in PayloadLens}
Malformed ==
    { << >>,                       \* nothing to decode
      <<5>>,                       \* a single byte string
      <<128>>,                     \* the empty string
      <<131, 1, 2, 3>>,            \* a string of three bytes
      <<184, 56>> \o Fill(56, 9),  \* a long string
      <<194, 1>>,                  \* a list that declares more than it holds
      <<248, 5, 1, 2, 3, 4, 5>>,   \* a list with a non-canonical long header
      <<193, 1, 2>>,               \* a list that declares less than it holds
      <<192, 7>> }                 \* the empty list and a trailing byte
RawBufs == ValidLists \cup Malformed

\* ------------------------------------------------------------------ state

VARIABLES
    tx,         \* the transaction, immutable once constructed
    out,        \* the caller's output buffer
    pre,        \* what the buffer held before encode wrote to it
    encoded,    \* [done, status] of encode
    lengthRes,  \* [done, val] of length
    hashRes,    \* [done, val] of hash
    recoverRes, \* [done, status, ok, val] of recover_from
    a_buf,      \* rlp_join_lists called on its own: the encoding of a
    b_buf,      \* the encoding of b
    jpre,       \* the buffer before the call
    jout,       \* the buffer after the call, or at the point of abort
    jstatus     \* "idle", "ok" or "panic"

vars == << tx, out, pre, encoded, lengthRes, hashRes, recoverRes,
           a_buf, b_buf, jpre, jout, jstatus >>
txVars == << tx, out, pre, encoded, lengthRes, hashRes, recoverRes >>
joinVars == << a_buf, b_buf, jpre, jout, jstatus >>

NoHash == keccak(<<255>>)

InitTx(t, o) ==
    /\ tx = t
    /\ out = o
    /\ pre = o
    /\ encoded = [done |-> FALSE, status |-> "ok"]
    /\ lengthRes = [done |-> FALSE, val |-> 0]
    /\ hashRes = [done |-> FALSE, val |-> NoHash]
    /\ recoverRes = [done |-> FALSE, status |-> "ok", ok |-> FALSE, val |-> 0]

InitJoin(a, b, o) ==
    /\ a_buf = a
    /\ b_buf = b
    /\ jpre = o
    /\ jout = o
    /\ jstatus = "idle"

\* ------------------------------------------------------------------ the container's operations

Init ==
    /\ \E t \in Transactions, o \in Buffers : InitTx(t, o)
    /\ InitJoin(<< >>, << >>, << >>)

Encode ==
    /\ ~encoded.done
    /\ LET r == Transaction_encode(tx, out)
       IN  /\ out' = r.out
           /\ encoded' = [done |-> TRUE, status |-> r.status]
    /\ UNCHANGED << tx, pre, lengthRes, hashRes, recoverRes, joinVars >>

Length ==
    /\ ~lengthRes.done
    /\ lengthRes' = [done |-> TRUE, val |-> Transaction_length(tx)]
    /\ UNCHANGED << tx, out, pre, encoded, hashRes, recoverRes, joinVars >>

Hash ==
    /\ ~hashRes.done
    /\ hashRes' = [done |-> TRUE, val |-> Transaction_hash(tx)]
    /\ UNCHANGED << tx, out, pre, encoded, lengthRes, recoverRes, joinVars >>

RecoverFrom ==
    /\ ~recoverRes.done
    /\ LET r == Transaction_recover_from(tx)
       IN  recoverRes' = [done |-> TRUE, status |-> r.status, ok |-> r.ok, val |-> r.val]
    /\ UNCHANGED << tx, out, pre, encoded, lengthRes, hashRes, joinVars >>

Next == Encode \/ Length \/ Hash \/ RecoverFrom

Spec == Init /\ [][Next]_vars

\* ------------------------------------------------------------------ the splicer on its own

DefaultTx ==
    [essence |-> [tx_type |-> 0, nonce |-> 0, data |-> << >>],
     signature |-> [v |-> 27, r |-> <<1>>, s |-> <<1>>]]

InitSplice ==
    /\ InitTx(DefaultTx, << >>)
    /\ \E a \in RawBufs, b \in RawBufs, o \in Buffers : InitJoin(a, b, o)

JoinLists ==
    /\ jstatus = "idle"
    /\ LET r == rlp_join_lists(a_buf, b_buf, jout)
       IN  /\ jout' = r.out
           /\ jstatus' = r.status
    /\ UNCHANGED << a_buf, b_buf, jpre, txVars >>

NextSplice == JoinLists

SpecSplice == InitSplice /\ [][NextSplice]_vars

\* ------------------------------------------------------------------ properties

\* the bytes encode appended to the caller's buffer
Written == SubSeq(out, Len(pre) + 1, Len(out))
\* the bytes rlp_join_lists appended to the caller's buffer
JWritten == SubSeq(jout, Len(jpre) + 1, Len(jout))
\* buf is a standalone RLP list: a list header and exactly the payload it declares
IsList(buf) ==
    LET h == Header_decode(buf)
    IN  h.ok /\ h.list /\ Len(buf) = Header_length(h) + h.payload_length
\* the header of buf indicates a list
HasListHeader(buf) == Header_decode(buf).ok /\ Header_decode(buf).list
\* the payload length the header of buf declares
Declared(buf) == Header_decode(buf).payload_length
\* the last n bytes of buf
LastBytes(buf, n) == SubSeq(buf, Len(buf) - n + 1, Len(buf))
IsDeposit == tx.essence.tx_type = OPTIMISM_DEPOSITED_TX_TYPE
\* the combined list of a signed transaction, without the type byte
SplicedLen == Len(Written) - (IF tx.essence.tx_type # 0 THEN 1 ELSE 0)
StandaloneSum == Len(Essence_encode(tx.essence)) + Len(Signature_encode(tx.signature))

\* C1: length() equals the number of bytes encode() appends to the output
\* buffer, for every transaction (legacy, typed, deposited).
C1_LengthEqualsEncoded ==
    (encoded.done /\ lengthRes.done) =>
        /\ encoded.status = "ok"
        /\ lengthRes.val = Len(out) - Len(pre)

C1_Witness ==
    /\ encoded.done /\ lengthRes.done
    /\ IsDeposit
    /\ pre # << >>
    /\ lengthRes.val > 57

\* C2: encode() appends exactly the wire format of the regime: legacy is the
\* list of essence and signature fields with no type byte; typed is the type
\* byte and that list; deposited is the type byte and the list of the essence
\* fields only.
C2_WireFormat ==
    encoded.done =>
        /\ encoded.status = "ok"
        /\ SubSeq(out, 1, Len(pre)) = pre
        /\ LET t == tx.essence.tx_type
               both == RlpList(Essence_payload(tx.essence) \o Signature_payload(tx.signature))
           IN  Written = IF t = 0 THEN both
                         ELSE IF t # OPTIMISM_DEPOSITED_TX_TYPE THEN <<t>> \o both
                         ELSE <<t>> \o RlpList(Essence_payload(tx.essence))

C2_Witness ==
    /\ encoded.done
    /\ tx.essence.tx_type = 1
    /\ pre # << >>
    /\ Len(Written) > 120

\* C3: for two valid standalone lists A and B, rlp_join_lists writes a valid
\* list whose header declares len(payload(A)) + len(payload(B)), whose payload
\* is payload(A) followed by payload(B), and whose total length is
\* header-length(sum) + len(payload(A)) + len(payload(B)).
C3_SpliceCorrect ==
    (jstatus # "idle" /\ IsList(a_buf) /\ IsList(b_buf)) =>
        LET n == Declared(a_buf) + Declared(b_buf)
        IN  /\ jstatus = "ok"
            /\ SubSeq(jout, 1, Len(jpre)) = jpre
            /\ IsList(JWritten)
            /\ Declared(JWritten) = n
            /\ LastBytes(JWritten, n)
                   = LastBytes(a_buf, Declared(a_buf)) \o LastBytes(b_buf, Declared(b_buf))
            /\ Len(JWritten) = length_of_length(n) + Declared(a_buf) + Declared(b_buf)

C3_Witness ==
    /\ jstatus = "ok"
    /\ IsList(a_buf) /\ IsList(b_buf)
    /\ a_buf # b_buf
    /\ Declared(a_buf) > 0 /\ Declared(a_buf) < 56
    /\ Declared(b_buf) > 0 /\ Declared(b_buf) < 56
    /\ Declared(JWritten) >= 56

\* C4 as stated: for the deposited type tag, the bytes encode() produces are
\* identical to the encoding of the essence alone as a list.
C4_Original ==
    (encoded.done /\ IsDeposit) => Written = Essence_encode(tx.essence)

\* C4: for the deposited type tag, encode() produces the type byte followed by
\* bytes identical to the encoding of the essence alone as a list.
C4_DepositIsTypeByteThenEssence ==
    (encoded.done /\ IsDeposit) =>
        /\ Written[1] = tx.essence.tx_type
        /\ SubSeq(Written, 2, Len(Written)) = Essence_encode(tx.essence)

C4_Witness ==
    /\ encoded.done /\ IsDeposit
    /\ Len(tx.signature.r) = 32
    /\ Len(tx.essence.data) = MaxDataLen

\* C5: for the deposited type tag, a transaction with the same essence and any
\* other signature has the same encoding, the same length and the same hash.
C5_SignatureIgnored ==
    IsDeposit =>
        \A sig \in Signatures :
            LET other == [tx EXCEPT !.signature = sig]
            IN  /\ encoded.done => Transaction_encode(other, pre).out = out
                /\ lengthRes.done => Transaction_length(other) = lengthRes.val
                /\ hashRes.done => Transaction_hash(other) = hashRes.val

C5_Witness ==
    /\ IsDeposit
    /\ encoded.done /\ lengthRes.done /\ hashRes.done
    /\ Len(tx.signature.r) = 32
    /\ tx.signature.v = 38

\* C6: when the header of A or of B does not indicate a list, rlp_join_lists
\* aborts and has written nothing to the output buffer.
C6_AbortWritesNothing ==
    (jstatus # "idle" /\ (~HasListHeader(a_buf) \/ ~HasListHeader(b_buf))) =>
        /\ jstatus = "panic"
        /\ jout = jpre

C6_Witness ==
    /\ jstatus = "panic"
    /\ IsList(a_buf) /\ Declared(a_buf) > 0
    /\ b_buf = <<131, 1, 2, 3>>
    /\ jpre # << >>

\* the transactions that differ from t in exactly one field
OneFieldChanged(t) ==
    ({[t EXCEPT !.essence.tx_type = x] : x \in TxTypes}
     \cup {[t EXCEPT !.essence.nonce = x] : x \in Nonces}
     \cup {[t EXCEPT !.essence.data = x] : x \in Datas}
     \cup {[t EXCEPT !.signature.v = x] : x \in {0, 27, 38}}
     \cup {[t EXCEPT !.signature.r = x] : x \in RValues}
     \cup {[t EXCEPT !.signature.s = x] : x \in SValues}) \ {t}

\* C7 as stated: changing any single field, of the essence or of the
\* signature, changes the hash.
C7_Original ==
    hashRes.done => \A t2 \in OneFieldChanged(tx) : Transaction_hash(t2) # hashRes.val

\* C7: the hash is the digest of what encode() writes; changing any single
\* essence field changes the hash, and changing any signature component
\* changes it unless the transaction has the deposited type tag.
C7_HashSensitive ==
    hashRes.done =>
        /\ encoded.done => hashRes.val = keccak(Written)
        /\ \A t2 \in OneFieldChanged(tx) :
               (t2.essence # tx.essence \/ ~IsDeposit) => Transaction_hash(t2) # hashRes.val

C7_Witness ==
    /\ hashRes.done /\ encoded.done
    /\ ~IsDeposit
    /\ \E t2 \in OneFieldChanged(tx) : t2.essence = tx.essence
    /\ \E t2 \in OneFieldChanged(tx) : t2.signature = tx.signature

\* C8: recover_from() returns the outcome of essence.recover_from(signature),
\* the address or the error as a value, without aborting and without writing
\* to the output buffer.
C8_RecoverDelegates ==
    recoverRes.done =>
        /\ recoverRes.status = "ok"
        /\ recoverRes.ok = Essence_recover_from(tx.essence, tx.signature).ok
        /\ recoverRes.val = Essence_recover_from(tx.essence, tx.signature).val
        /\ ~encoded.done => out = pre

C8_Witness ==
    /\ recoverRes.done
    /\ ~recoverRes.ok
    /\ tx.signature.v = 0

\* C9 as stated: the spliced list of a signed transaction is strictly shorter
\* than the two standalone lists together.
C9_Original ==
    (encoded.done /\ ~IsDeposit) => SplicedLen < StandaloneSum

\* C9: the spliced list of a signed transaction is never longer than the two
\* standalone lists together; it is one byte shorter when the combined payload
\* is under 56 bytes and strictly shorter when both payloads are 56 bytes or
\* more.
C9_SplicedNotLonger ==
    (encoded.done /\ ~IsDeposit) =>
        LET pa == Essence_payload_length(tx.essence)
            pb == Signature_payload_length(tx.signature)
        IN  /\ SplicedLen <= StandaloneSum
            /\ pa + pb < 56 => SplicedLen = StandaloneSum - 1
            /\ (pa >= 56 /\ pb >= 56) => SplicedLen < StandaloneSum

C9_Witness ==
    /\ encoded.done /\ ~IsDeposit
    /\ Essence_payload_length(tx.essence) < 56
    /\ Signature_payload_length(tx.signature) < 56
    /\ Essence_payload_length(tx.essence) + Signature_payload_length(tx.signature) >= 56
    /\ SplicedLen = StandaloneSum

\* C10: when rlp_join_lists returns, the payload length its header declares is
\* the number of bytes it appended after the header, also for inputs whose
\* header declares another length than they hold.
C10_HeaderMatchesPayload ==
    jstatus = "ok" =>
        LET h == Header_decode(JWritten)
        IN  /\ h.ok /\ h.list
            /\ h.payload_length = Len(JWritten) - Header_length(h)

C10_Witness ==
    /\ jstatus = "ok"
    /\ a_buf = <<193, 1, 2>>
    /\ IsList(b_buf)
    /\ ~IsList(a_buf)

====
